---- MODULE Spec2Model ----
(***************************************************************************)
(* Model of the Redis job queue of whisper-project:                        *)
(*   scripts/queue_client.py  WhisperQueueClient (producers, readers)      *)
(*   scripts/queue_worker.py  WhisperQueueWorker (the single consumer)     *)
(* One Redis server holds the list "whisper:jobs" and the result keys      *)
(* "whisper:result:<job_id>".                                              *)
(***************************************************************************)
EXTENDS Integers, Sequences, FiniteSets, TLC

(* ------------------------------ bounds --------------------------------- *)
\* number of queue entries ever appended (submit_job calls plus raw RPUSHes)
MaxJobs == 2

\* results in the store when list_queue_status is called
MaxResults == 6

\* files and directories created in the watched directory
MaxEvents == 3

\* advances of the clock between steps
MaxTicks == 2

Producers == {"p1", "p2"}

(* --------------------------- program text ------------------------------ *)
queue_name == "whisper:jobs"
result_prefix == "whisper:result:"
LIMIT == 5
POLL_INTERVAL == 2
RESULT_TTL == 3600

\* JSON null / Python None, and a present value
Null == <<>>
Some(v) == <<v>>

\* str(uuid.uuid4()) of the n-th call: fresh for every call
uuid4(n) == "job-" \o ToString(n)

\* what subprocess.run can return: any return code, any captured stderr
ExecResults ==
    { [returncode |-> 0, stdout |-> "transcript", stderr |-> ""],
      [returncode |-> 0, stdout |-> "transcript", stderr |-> "FP16 not supported"],
      [returncode |-> 1, stdout |-> "", stderr |-> "file not found"],
      [returncode |-> -9, stdout |-> "", stderr |-> ""] }

(* ---------------------------- queue entries ---------------------------- *)
\* An entry of the Redis list is a byte string.  `shape' says what
\* json.loads makes of it: "object" (a dict), "other" (a list, string,
\* number or null) or "invalid" (json.loads raises).  For an object,
\* has_path / has_id say which required keys it holds.
Entry(shape, has_path, has_id, id) ==
    [shape |-> shape, has_path |-> has_path, has_id |-> has_id, job_id |-> id]

\* json.dumps(job_data) of submit_job: always an object with every field
SubmittedEntry(id) == Entry("object", TRUE, TRUE, id)

MalformedEntries(id) ==
    { Entry("object", FALSE, TRUE, id),     \* no "file_path"
      Entry("object", TRUE, FALSE, ""),     \* no "job_id"
      Entry("object", FALSE, FALSE, ""),    \* {}
      Entry("other", FALSE, FALSE, ""),     \* [], "x", 7, null
      Entry("invalid", FALSE, FALSE, "") }  \* not JSON

\* job_data[k] raises KeyError on a dict without k, TypeError on a non-dict
HasKey(job_data, k) ==
    /\ job_data.shape = "object"
    /\ \/ k = "file_path" /\ job_data.has_path
       \/ k = "job_id" /\ job_data.has_id
       \/ k \in {"output_dir", "model"}

\* job_data.get("job_id", "unknown") on a dict
get_job_id(job_data) ==
    IF job_data.has_id THEN job_data.job_id ELSE "unknown"

(* ------------------------------- state --------------------------------- *)
VARIABLES
    redisUp,    \* the Redis server is reachable
    queue,      \* the Redis list whisper:jobs, head first
    store,      \* the keys whisper:result:*, key -> [value, ttl]
    nextId,     \* uuid4 calls made so far + 1
    ppc,        \* producer -> position in submit_job
    pjob,       \* producer -> job_data built by submit_job
    submitted,  \* job ids returned by submit_job
    wpc,        \* worker position in run / process_job
    job_data,   \* the entry BLPOP returned, then json.loads of it
    result,     \* what subprocess.run returned
    exc,        \* str(e) of the exception being handled
    signalled,  \* a KeyboardInterrupt has been delivered to the worker
    enqLog,     \* history: entries in the order they were appended
    hist,       \* history: one record per dequeued entry
    now,        \* time.time(), in seconds since the start
    ticks,      \* times the clock was advanced from outside
    wtpc,       \* position of the caller in wait_for_result
    wt,         \* wait_for_result's arguments and locals
    spc,        \* position of the caller in list_queue_status
    snap,       \* list_queue_status' locals and what it printed
    processing, \* the watcher's set self.processing
    fthr,       \* thread -> position in on_created / process_file, and path
    accepted,   \* history: paths the watcher passed to process_file
    wexecs      \* history: paths the watcher ran transcribe.py for

vars == <<redisUp, queue, store, nextId, ppc, pjob, submitted,
          wpc, job_data, result, exc, signalled, enqLog, hist,
          now, ticks, wtpc, wt, spc, snap, processing, fthr, accepted, wexecs>>

redisVars == <<redisUp>>
prodVars == <<nextId, ppc, pjob, submitted, enqLog>>
workVars == <<wpc, job_data, result, exc, hist>>
timeVars == <<now, ticks>>
waitVars == <<wtpc, wt>>
snapVars == <<spc, snap>>
watchVars == <<processing, fthr, accepted, wexecs>>

\* the threads that call the watcher's handler
Threads == {"t1", "t2"}

NoEntry == Entry("none", FALSE, FALSE, "")
NoResult == [returncode |-> 0, stdout |-> "", stderr |-> ""]
NoSnap == [queue_length |-> 0, result_keys |-> <<>>, i |-> 0, printed |-> <<>>]
NoCall == [pc |-> "idle", path |-> ""]
NoWait == [job_id |-> "", timeout |-> 0, start_time |-> 0, lookups |-> 0,
           ret |-> Null, out |-> <<>>, had |-> Null]

Init ==
    /\ redisUp = TRUE
    /\ queue = <<>>
    /\ store = <<>>
    /\ nextId = 1
    /\ ppc = [p \in Producers |-> "idle"]
    /\ pjob = [p \in Producers |-> NoEntry]
    /\ submitted = {}
    /\ wpc = "blpop"
    /\ job_data = NoEntry
    /\ result = NoResult
    /\ exc = ""
    /\ signalled = FALSE
    /\ enqLog = <<>>
    /\ hist = <<>>
    /\ now = 0
    /\ ticks = 0
    /\ wtpc = "idle"
    /\ wt = NoWait
    /\ spc = "idle"
    /\ snap = NoSnap
    /\ processing = {}
    /\ fthr = [t \in Threads |-> NoCall]
    /\ accepted = <<>>
    /\ wexecs = <<>>

(* ------------------------------- Redis --------------------------------- *)
\* LPUSH in place of RPUSH
rpush_AtHead(list, value) == <<value>> \o list

\* RPUSH key value
rpush(list, value) == Append(list, value)

\* the head is read and left on the list
lpop_rest_Peek(list) == list

\* the list after BLPOP took its head
lpop_rest(list) == Tail(list)

\* PSETEX semantics: the ttl is taken as milliseconds
setex_Millis(db, key, ttl, value) ==
    [k \in DOMAIN db \cup {key} |->
        IF k = key THEN [value |-> value, ttl |-> ttl \div 1000] ELSE db[k]]

\* SETNX semantics: a key that exists keeps its value and its expiry
setex_KeepFirst(db, key, ttl, value) ==
    [k \in DOMAIN db \cup {key} |->
        IF k \in DOMAIN db THEN db[k] ELSE [value |-> value, ttl |-> ttl]]

\* SETEX key ttl value: overwrites, sets the expiry
setex(db, key, ttl, value) ==
    [k \in DOMAIN db \cup {key} |->
        IF k = key THEN [value |-> value, ttl |-> ttl] ELSE db[k]]

\* GET key
get(db, key) == IF key \in DOMAIN db THEN Some(db[key].value) ELSE Null

\* expiry: the keys of db that are left after d more seconds, each with the
\* rest of its time to live; a key is gone once its ttl seconds have passed
elapse(db, d) ==
    [k \in { x \in DOMAIN db : db[x].ttl > d } |->
        [value |-> db[k].value, ttl |-> db[k].ttl - d]]

\* time passes while no process of the model takes a step
TickSteps == {1, RESULT_TTL - 1}

Tick ==
    /\ ticks < MaxTicks
    /\ \E d \in TickSteps :
          /\ now' = now + d
          /\ store' = elapse(store, d)
    /\ ticks' = ticks + 1
    /\ UNCHANGED <<redisVars, queue, prodVars, workVars, signalled, waitVars, snapVars, watchVars>>

\* the server is lost or comes back (connection refused / restored)
RedisDown ==
    /\ redisUp
    /\ redisUp' = FALSE
    /\ UNCHANGED <<queue, store, prodVars, workVars, signalled, timeVars, waitVars, snapVars, watchVars>>

RedisRestore ==
    /\ ~redisUp
    /\ redisUp' = TRUE
    /\ UNCHANGED <<queue, store, prodVars, workVars, signalled, timeVars, waitVars, snapVars, watchVars>>

(* ------------------------------ client --------------------------------- *)
\* submit_job, lines 21-29: a fresh job_id and the job_data dict
SubmitBuild(p) ==
    /\ ppc[p] = "idle"
    /\ nextId <= MaxJobs
    /\ pjob' = [pjob EXCEPT ![p] = SubmittedEntry(uuid4(nextId))]
    /\ nextId' = nextId + 1
    /\ ppc' = [ppc EXCEPT ![p] = "rpush"]
    /\ UNCHANGED <<redisVars, queue, store, submitted, enqLog, workVars, signalled, timeVars, waitVars, snapVars, watchVars>>

\* the push waits while the list already holds an entry
SubmitPush_Bounded(p) ==
    /\ ppc[p] = "rpush"
    /\ Len(queue) < 1
    /\ ppc' = [ppc EXCEPT ![p] = "idle"]
    /\ pjob' = [pjob EXCEPT ![p] = NoEntry]
    /\ IF redisUp
       THEN /\ queue' = rpush(queue, pjob[p])
            /\ enqLog' = Append(enqLog, pjob[p])
            /\ submitted' = submitted \cup {pjob[p].job_id}
       ELSE UNCHANGED <<queue, enqLog, submitted>>
    /\ UNCHANGED <<redisVars, store, nextId, workVars, signalled, timeVars, waitVars, snapVars, watchVars>>

\* submit_job also stores a result with status queued for the new job
SubmitPush_MarksQueued(p) ==
    /\ ppc[p] = "rpush"
    /\ ppc' = [ppc EXCEPT ![p] = "idle"]
    /\ pjob' = [pjob EXCEPT ![p] = NoEntry]
    /\ IF redisUp
       THEN /\ queue' = rpush(queue, pjob[p])
            /\ enqLog' = Append(enqLog, pjob[p])
            /\ submitted' = submitted \cup {pjob[p].job_id}
            /\ store' = setex(store, result_prefix \o pjob[p].job_id, RESULT_TTL,
                              [job_id |-> pjob[p].job_id, status |-> "queued"])
       ELSE UNCHANGED <<queue, enqLog, submitted, store>>
    /\ UNCHANGED <<redisVars, nextId, workVars, signalled, timeVars, waitVars, snapVars, watchVars>>

\* submit_job, lines 32-38: RPUSH and return job_id; a ConnectionError
\* of rpush leaves submit_job without a return value
SubmitPush(p) ==
    /\ ppc[p] = "rpush"
    /\ ppc' = [ppc EXCEPT ![p] = "idle"]
    /\ pjob' = [pjob EXCEPT ![p] = NoEntry]
    /\ IF redisUp
       THEN /\ queue' = rpush(queue, pjob[p])
            /\ enqLog' = Append(enqLog, pjob[p])
            /\ submitted' = submitted \cup {pjob[p].job_id}
       ELSE UNCHANGED <<queue, enqLog, submitted>>
    /\ UNCHANGED <<redisVars, store, nextId, workVars, signalled, timeVars, waitVars, snapVars, watchVars>>

\* an entry that did not come from submit_job is appended to the list
RawPush ==
    /\ redisUp
    /\ nextId <= MaxJobs
    /\ \E e \in MalformedEntries(uuid4(nextId)) :
          /\ queue' = rpush(queue, e)
          /\ enqLog' = Append(enqLog, e)
    /\ nextId' = nextId + 1
    /\ UNCHANGED <<redisVars, store, ppc, pjob, submitted, workVars, signalled, timeVars, waitVars, snapVars, watchVars>>

\* LLEN key
llen(list) == Len(list)

\* list_queue_status, line 64: the "Jobs in queue" it prints
queue_length == llen(queue)

\* get_result, lines 40-47
get_result(job_id) == get(store, result_prefix \o job_id)

\* the timeout argument of wait_for_result
Timeouts == {0, 3}

\* "Job completed!" is printed only for a result with status completed
wait_command_output_ByStatus(r) ==
    IF r # Null /\ r[1].status = "completed"
    THEN <<"Job completed!", r[1]>>
    ELSE <<"Job timed out or failed">>

\* main, wait command, lines 107-116: what is printed for the value that
\* wait_for_result returned
wait_command_output(r) ==
    IF r # Null
    THEN <<"Job completed!", r[1]>>
    ELSE <<"Job timed out or failed">>

\* main, line 108, and wait_for_result, lines 50-52: the one call a client
\* process makes, start_time = time.time()
WaitStart ==
    /\ wtpc = "idle"
    /\ \E id \in { uuid4(n) : n \in 1..MaxJobs }, t \in Timeouts :
          wt' = [job_id |-> id, timeout |-> t, start_time |-> now,
                 lookups |-> 0, ret |-> Null, out |-> <<>>,
                 had |-> get_result(id)]
    /\ wtpc' = "while"
    /\ UNCHANGED <<redisVars, queue, store, prodVars, workVars, signalled, timeVars, snapVars, watchVars>>

\* the lookup is made also when the timeout has just run out
WaitWhile_Inclusive ==
    /\ wtpc = "while"
    /\ IF now - wt.start_time <= wt.timeout
       THEN wtpc' = "get" /\ wt' = wt
       ELSE /\ wtpc' = "returned"
            /\ wt' = [wt EXCEPT !.ret = Null, !.out = wait_command_output(Null)]
    /\ UNCHANGED <<redisVars, queue, store, prodVars, workVars, signalled, timeVars, snapVars, watchVars>>

\* wait_for_result, lines 54 and 60: the loop condition; return None
WaitWhile ==
    /\ wtpc = "while"
    /\ IF now - wt.start_time < wt.timeout
       THEN wtpc' = "get" /\ wt' = wt
       ELSE /\ wtpc' = "returned"
            /\ wt' = [wt EXCEPT !.ret = Null, !.out = wait_command_output(Null)]
    /\ UNCHANGED <<redisVars, queue, store, prodVars, workVars, signalled, timeVars, snapVars, watchVars>>

\* wait_for_result, lines 55-57: get_result, return what it found; the
\* ConnectionError of an unreachable Redis leaves wait_for_result
WaitGet ==
    /\ wtpc = "get"
    /\ IF ~redisUp
       THEN wtpc' = "raised" /\ wt' = wt
       ELSE LET r == get_result(wt.job_id)
            IN IF r # Null
               THEN /\ wtpc' = "returned"
                    /\ wt' = [wt EXCEPT !.lookups = @ + 1, !.ret = r,
                                        !.out = wait_command_output(r)]
               ELSE /\ wtpc' = "sleep"
                    /\ wt' = [wt EXCEPT !.lookups = @ + 1]
    /\ UNCHANGED <<redisVars, queue, store, prodVars, workVars, signalled, timeVars, snapVars, watchVars>>

\* wait_for_result, line 58: time.sleep(2)
WaitSleep ==
    /\ wtpc = "sleep"
    /\ now' = now + POLL_INTERVAL
    /\ store' = elapse(store, POLL_INTERVAL)
    /\ wtpc' = "while"
    /\ UNCHANGED <<redisVars, queue, prodVars, workVars, signalled, ticks, wt, snapVars, watchVars>>

Waiter == WaitWhile \/ WaitGet \/ WaitSleep

\* KEYS pattern: the keys in an order Redis does not define
RECURSIVE Perms(_)
Perms(S) ==
    IF S = {} THEN {<<>>}
    ELSE UNION { { <<x>> \o p : p \in Perms(S \ {x}) } : x \in S }

keys(db) == Perms(DOMAIN db)

\* result_keys[:5]
first_keys(ks) == SubSeq(ks, 1, IF Len(ks) < LIMIT THEN Len(ks) ELSE LIMIT)

\* list_queue_status, lines 64-65: LLEN and the first line printed; the one
\* call a client process makes (main, status command)
SnapLlen ==
    /\ spc = "idle"
    /\ IF ~redisUp
       THEN spc' = "raised" /\ snap' = snap
       ELSE /\ spc' = "keys"
            /\ snap' = [snap EXCEPT
                  !.queue_length = queue_length,
                  !.printed = Append(@, <<"Jobs in queue", queue_length>>)]
    /\ UNCHANGED <<redisVars, queue, store, prodVars, workVars, signalled, timeVars, waitVars, watchVars>>

\* list_queue_status, lines 68-70: KEYS whisper:result:*
SnapKeys ==
    /\ spc = "keys"
    /\ IF ~redisUp
       THEN spc' = "raised" /\ snap' = snap
       ELSE \E ks \in keys(store) :
              IF ks = <<>>
              THEN spc' = "done" /\ snap' = [snap EXCEPT !.result_keys = ks]
              ELSE /\ spc' = "loop"
                   /\ snap' = [snap EXCEPT
                         !.result_keys = ks,
                         !.i = 1,
                         !.printed = Append(@, <<"Recent results", Len(ks)>>)]
    /\ UNCHANGED <<redisVars, queue, store, prodVars, workVars, signalled, timeVars, waitVars, watchVars>>

\* list_queue_status, lines 71-73: one turn of the loop over result_keys[:5]:
\* GET, json.loads, print; json.loads(None) raises TypeError
SnapGet ==
    /\ spc = "loop"
    /\ LET key == snap.result_keys[snap.i]
           v == get(store, key)
           last == snap.i = Len(first_keys(snap.result_keys))
       IN IF ~redisUp \/ v = Null
          THEN spc' = "raised" /\ snap' = snap
          ELSE /\ spc' = IF last THEN "done" ELSE "loop"
               /\ snap' = [snap EXCEPT
                     !.i = @ + 1,
                     !.printed = Append(@, <<v[1].job_id, v[1].status>>)]
    /\ UNCHANGED <<redisVars, queue, store, prodVars, workVars, signalled, timeVars, waitVars, watchVars>>

Snapshot == SnapLlen \/ SnapKeys \/ SnapGet

(* ------------------------------ watcher -------------------------------- *)
\* on_created, lines 32-40: the suffixes taken for audio or video
MediaSuffixes == {".mp3", ".mp4", ".wav", ".m4a", ".flac", ".ogg", ".webm"}

\* str.lower on the suffixes that occur
lower(s) == IF s = ".MP3" THEN ".mp3" ELSE IF s = ".TXT" THEN ".txt" ELSE s

\* what the observer can report as created
CreatedEvents ==
    { [src_path |-> "/app/input/a.MP3", suffix |-> ".MP3", is_directory |-> FALSE],
      [src_path |-> "/app/input/b.wav", suffix |-> ".wav", is_directory |-> FALSE],
      [src_path |-> "/app/input/notes.txt", suffix |-> ".txt", is_directory |-> FALSE],
      [src_path |-> "/app/input/new.ogg", suffix |-> ".ogg", is_directory |-> TRUE] }

\* on_created, lines 25-41: directories and other suffixes are passed over
OnCreated(t) ==
    /\ fthr[t].pc = "idle"
    /\ Len(accepted) < MaxEvents
    /\ \E ev \in CreatedEvents :
          IF ~ev.is_directory /\ lower(ev.suffix) \in MediaSuffixes
          THEN /\ fthr' = [fthr EXCEPT ![t] = [pc |-> "check", path |-> ev.src_path]]
               /\ accepted' = Append(accepted, ev.src_path)
          ELSE UNCHANGED <<fthr, accepted>>
    /\ UNCHANGED <<redisVars, queue, store, prodVars, workVars, signalled, timeVars,
                   waitVars, snapVars, processing, wexecs>>

\* process_file, lines 44-45: a path found in self.processing is dropped
WatchCheck(t) ==
    /\ fthr[t].pc = "check"
    /\ fthr' = [fthr EXCEPT ![t] =
                  IF fthr[t].path \in processing THEN NoCall
                  ELSE [@ EXCEPT !.pc = "add"]]
    /\ UNCHANGED <<redisVars, queue, store, prodVars, workVars, signalled, timeVars,
                   waitVars, snapVars, processing, accepted, wexecs>>

\* process_file, line 48: self.processing.add
WatchAdd(t) ==
    /\ fthr[t].pc = "add"
    /\ processing' = processing \cup {fthr[t].path}
    /\ fthr' = [fthr EXCEPT ![t].pc = "sleep"]
    /\ UNCHANGED <<redisVars, queue, store, prodVars, workVars, signalled, timeVars,
                   waitVars, snapVars, accepted, wexecs>>

\* process_file, lines 52-66: time.sleep(2), the command line is built
WatchSleep(t) ==
    /\ fthr[t].pc = "sleep"
    /\ fthr' = [fthr EXCEPT ![t].pc = "run"]
    /\ UNCHANGED <<redisVars, queue, store, prodVars, workVars, signalled, timeVars,
                   waitVars, snapVars, processing, accepted, wexecs>>

\* process_file, line 68: subprocess.run starts transcribe.py
WatchExec(t) ==
    /\ fthr[t].pc = "run"
    /\ wexecs' = Append(wexecs, fthr[t].path)
    /\ fthr' = [fthr EXCEPT ![t].pc = "running"]
    /\ UNCHANGED <<redisVars, queue, store, prodVars, workVars, signalled, timeVars,
                   waitVars, snapVars, processing, accepted>>

\* process_file, lines 68-73: transcribe.py ends, with any return code
WatchReturns(t) ==
    /\ fthr[t].pc = "running"
    /\ fthr' = [fthr EXCEPT ![t].pc = "finally"]
    /\ UNCHANGED <<redisVars, queue, store, prodVars, workVars, signalled, timeVars,
                   waitVars, snapVars, processing, accepted, wexecs>>

\* process_file, lines 68, 75-76: subprocess.run raises, the error is logged
WatchRaises(t) ==
    /\ fthr[t].pc = "run"
    /\ fthr' = [fthr EXCEPT ![t].pc = "finally"]
    /\ UNCHANGED <<redisVars, queue, store, prodVars, workVars, signalled, timeVars,
                   waitVars, snapVars, processing, accepted, wexecs>>

\* process_file, lines 77-78: self.processing.discard
WatchFinally(t) ==
    /\ fthr[t].pc = "finally"
    /\ processing' = processing \ {fthr[t].path}
    /\ fthr' = [fthr EXCEPT ![t] = NoCall]
    /\ UNCHANGED <<redisVars, queue, store, prodVars, workVars, signalled, timeVars,
                   waitVars, snapVars, accepted, wexecs>>

Watcher(t) ==
    \/ OnCreated(t) \/ WatchCheck(t) \/ WatchAdd(t) \/ WatchSleep(t)
    \/ WatchExec(t) \/ WatchReturns(t) \/ WatchRaises(t) \/ WatchFinally(t)

(* ------------------------------ worker --------------------------------- *)
\* history record of one dequeued entry
NewRec(e) ==
    [entry |-> e,          \* the entry as dequeued
     parsed |-> FALSE,     \* json.loads returned
     mkdir |-> "no",       \* "no", "ok", "failed"
     execs |-> 0,          \* calls of subprocess.run
     ran |-> "no",         \* "no", "returned", "raised"
     res |-> NoResult,     \* what subprocess.run returned
     writes |-> <<>>,      \* SETEX attempts: [key, value, ok]
     interrupted |-> FALSE,\* a KeyboardInterrupt arrived while it was handled
     escaped |-> FALSE,    \* process_job raised to run
     ret |-> Null,         \* what process_job returned
     done |-> FALSE]       \* run is through with the entry

Last == Len(hist)

\* a third status for a run killed by a signal
result_data_Killed(job_id, r) ==
    [job_id |-> job_id,
     status |-> IF r.returncode = 0 THEN "completed"
                ELSE IF r.returncode > 0 THEN "failed" ELSE "killed",
     output |-> r.stdout,
     error |-> IF r.returncode # 0 THEN Some(r.stderr) ELSE Null]

\* stderr copied whatever the return code
result_data_AlwaysStderr(job_id, r) ==
    [job_id |-> job_id,
     status |-> IF r.returncode = 0 THEN "completed" ELSE "failed",
     output |-> r.stdout,
     error |-> Some(r.stderr)]

\* success judged by an empty stderr
result_data_ByStderr(job_id, r) ==
    [job_id |-> job_id,
     status |-> IF r.stderr = "" THEN "completed" ELSE "failed",
     output |-> r.stdout,
     error |-> IF r.stderr # "" THEN Some(r.stderr) ELSE Null]

\* result_data, lines 53-59 (timestamp left out)
result_data(job_id, r) ==
    [job_id |-> job_id,
     status |-> IF r.returncode = 0 THEN "completed" ELSE "failed",
     output |-> r.stdout,
     error |-> IF r.returncode # 0 THEN Some(r.stderr) ELSE Null]

\* the sentinel is stored whatever the entry holds
error_data_Sentinel(jd, e) ==
    [job_id |-> "unknown",
     status |-> "error",
     error |-> Some(e)]

\* error_data, lines 77-82 (timestamp left out)
error_data(jd, e) ==
    [job_id |-> get_job_id(jd),
     status |-> "error",
     error |-> Some(e)]

\* the key of the SETEX in the except branch, line 86
error_key(jd) == result_prefix \o get_job_id(jd)

\* run, line 102: BLPOP returns the head of the list
BlpopJob ==
    /\ wpc = "blpop"
    /\ redisUp
    /\ queue # <<>>
    /\ job_data' = Head(queue)
    /\ queue' = lpop_rest(queue)
    /\ hist' = Append(hist, NewRec(Head(queue)))
    /\ wpc' = "loads"
    /\ UNCHANGED <<redisVars, store, prodVars, result, exc, signalled, timeVars, waitVars, snapVars, watchVars>>

\* the ConnectionError of BLPOP ends run
BlpopError_Exit ==
    /\ wpc = "blpop"
    /\ ~redisUp
    /\ exc' = "Connection refused"
    /\ wpc' = "aborted"
    /\ UNCHANGED <<redisVars, queue, store, prodVars, job_data, result, hist, signalled, timeVars, waitVars, snapVars, watchVars>>

\* run, lines 102, 115-116: BLPOP raises ConnectionError
BlpopError ==
    /\ wpc = "blpop"
    /\ ~redisUp
    /\ exc' = "Connection refused"
    /\ wpc' = "sleep"
    /\ UNCHANGED <<redisVars, queue, store, prodVars, job_data, result, hist, signalled, timeVars, waitVars, snapVars, watchVars>>

\* run, lines 104-107: json.loads; a JSONDecodeError goes to line 115
Loads ==
    /\ wpc = "loads"
    /\ IF job_data.shape = "invalid"
       THEN /\ exc' = "Expecting value"
            /\ wpc' = "sleep"
            /\ hist' = [hist EXCEPT ![Last].done = TRUE]
       ELSE /\ wpc' = "fields"
            /\ hist' = [hist EXCEPT ![Last].parsed = TRUE]
            /\ UNCHANGED exc
    /\ UNCHANGED <<redisVars, queue, store, prodVars, job_data, result, signalled, timeVars, waitVars, snapVars, watchVars>>

\* process_job, lines 28-31: the required keys
Fields ==
    /\ wpc = "fields"
    /\ IF job_data.shape # "object"
       THEN exc' = "indices must be integers" /\ wpc' = "handler"
       ELSE IF ~HasKey(job_data, "file_path")
       THEN exc' = "'file_path'" /\ wpc' = "handler"
       ELSE IF ~HasKey(job_data, "job_id")
       THEN exc' = "'job_id'" /\ wpc' = "handler"
       ELSE wpc' = "mkdir" /\ UNCHANGED exc
    /\ UNCHANGED <<redisVars, queue, store, prodVars, job_data, result, hist, signalled, timeVars, waitVars, snapVars, watchVars>>

\* process_job, line 36: Path(output_dir).mkdir
MkdirOk ==
    /\ wpc = "mkdir"
    /\ wpc' = "run_cmd"
    /\ hist' = [hist EXCEPT ![Last].mkdir = "ok"]
    /\ UNCHANGED <<redisVars, queue, store, prodVars, job_data, result, exc, signalled, timeVars, waitVars, snapVars, watchVars>>

\* the failed job is put back on the list
MkdirFails_Requeue ==
    /\ wpc = "mkdir"
    /\ wpc' = "handler"
    /\ exc' = "Permission denied"
    /\ queue' = rpush(queue, job_data)
    /\ hist' = [hist EXCEPT ![Last].mkdir = "failed"]
    /\ UNCHANGED <<redisVars, store, prodVars, job_data, result, signalled, timeVars, waitVars, snapVars, watchVars>>

MkdirFails ==
    /\ wpc = "mkdir"
    /\ wpc' = "handler"
    /\ exc' = "Permission denied"
    /\ hist' = [hist EXCEPT ![Last].mkdir = "failed"]
    /\ UNCHANGED <<redisVars, queue, store, prodVars, job_data, result, signalled, timeVars, waitVars, snapVars, watchVars>>

\* the command is started and not waited for (Popen in place of run)
RunReturns_Detached ==
    /\ wpc = "run_cmd"
    /\ hist' = [hist EXCEPT ![Last].execs = @ + 1]
    /\ wpc' = "blpop"
    /\ UNCHANGED <<redisVars, queue, store, prodVars, job_data, result, exc, signalled, timeVars, waitVars, snapVars, watchVars>>

\* process_job, line 50: subprocess.run returns
RunReturns ==
    /\ wpc = "run_cmd"
    /\ \E r \in ExecResults :
          /\ result' = r
          /\ hist' = [hist EXCEPT ![Last].execs = @ + 1,
                                  ![Last].ran = "returned",
                                  ![Last].res = result']
    /\ wpc' = "setex"
    /\ UNCHANGED <<redisVars, queue, store, prodVars, job_data, exc, signalled, timeVars, waitVars, snapVars, watchVars>>

\* process_job, line 50: subprocess.run raises (no interpreter, bad argument)
RunRaises ==
    /\ wpc = "run_cmd"
    /\ exc' = "No such file or directory"
    /\ hist' = [hist EXCEPT ![Last].execs = @ + 1, ![Last].ran = "raised"]
    /\ wpc' = "handler"
    /\ UNCHANGED <<redisVars, queue, store, prodVars, job_data, result, signalled, timeVars, waitVars, snapVars, watchVars>>

\* a failed SETEX sends the job through subprocess.run again
Setex_Retry ==
    /\ wpc = "setex"
    /\ LET rd == result_data(job_data.job_id, result)
           key == result_prefix \o job_data.job_id
       IN IF redisUp
          THEN /\ store' = setex(store, key, RESULT_TTL, rd)
               /\ hist' = [hist EXCEPT
                     ![Last].writes = Append(@, [key |-> key, value |-> rd, ok |-> TRUE, at |-> now]),
                     ![Last].ret = Some(result.returncode = 0),
                     ![Last].done = TRUE]
               /\ wpc' = "blpop"
               /\ UNCHANGED exc
          ELSE /\ hist' = [hist EXCEPT
                     ![Last].writes = Append(@, [key |-> key, value |-> rd, ok |-> FALSE, at |-> now])]
               /\ exc' = "Connection refused"
               /\ wpc' = "run_cmd"
               /\ UNCHANGED store
    /\ UNCHANGED <<redisVars, queue, prodVars, job_data, result, signalled, timeVars, waitVars, snapVars, watchVars>>

\* process_job, lines 53-72: build result_data, SETEX, return
Setex ==
    /\ wpc = "setex"
    /\ LET rd == result_data(job_data.job_id, result)
           key == result_prefix \o job_data.job_id
       IN IF redisUp
          THEN /\ store' = setex(store, key, RESULT_TTL, rd)
               /\ hist' = [hist EXCEPT
                     ![Last].writes = Append(@, [key |-> key, value |-> rd, ok |-> TRUE, at |-> now]),
                     ![Last].ret = Some(result.returncode = 0),
                     ![Last].done = TRUE]
               /\ wpc' = "blpop"
               /\ UNCHANGED exc
          ELSE /\ hist' = [hist EXCEPT
                     ![Last].writes = Append(@, [key |-> key, value |-> rd, ok |-> FALSE, at |-> now])]
               /\ exc' = "Connection refused"
               /\ wpc' = "handler"
               /\ UNCHANGED store
    /\ UNCHANGED <<redisVars, queue, prodVars, job_data, result, signalled, timeVars, waitVars, snapVars, watchVars>>

\* the AttributeError is caught by nothing and ends run
Handler_NoCatch ==
    /\ wpc = "handler"
    /\ IF job_data.shape # "object"
       THEN /\ exc' = "object has no attribute 'get'"
            /\ wpc' = "aborted"
            /\ hist' = [hist EXCEPT ![Last].escaped = TRUE, ![Last].done = TRUE]
       ELSE /\ wpc' = "setex_err"
            /\ UNCHANGED <<exc, hist>>
    /\ UNCHANGED <<redisVars, queue, store, prodVars, job_data, result, signalled, timeVars, waitVars, snapVars, watchVars>>

\* process_job, lines 74-82: build error_data; job_data.get raises
\* AttributeError when job_data is no dict, and that leaves process_job
Handler ==
    /\ wpc = "handler"
    /\ IF job_data.shape # "object"
       THEN /\ exc' = "object has no attribute 'get'"
            /\ wpc' = "sleep"
            /\ hist' = [hist EXCEPT ![Last].escaped = TRUE, ![Last].done = TRUE]
       ELSE /\ wpc' = "setex_err"
            /\ UNCHANGED <<exc, hist>>
    /\ UNCHANGED <<redisVars, queue, store, prodVars, job_data, result, signalled, timeVars, waitVars, snapVars, watchVars>>

\* the inner handler ends the process when the SETEX fails
SetexErr_Exit ==
    /\ wpc = "setex_err"
    /\ LET ed == error_data(job_data, exc)
           key == error_key(job_data)
       IN /\ store' = IF redisUp THEN setex(store, key, RESULT_TTL, ed) ELSE store
          /\ hist' = [hist EXCEPT
                ![Last].writes = Append(@, [key |-> key, value |-> ed, ok |-> redisUp, at |-> now]),
                ![Last].ret = IF redisUp THEN Some(FALSE) ELSE Null,
                ![Last].done = TRUE]
    /\ wpc' = IF redisUp THEN "blpop" ELSE "aborted"
    /\ UNCHANGED <<redisVars, queue, prodVars, job_data, result, exc, signalled, timeVars, waitVars, snapVars, watchVars>>

\* process_job, lines 84-93: SETEX of error_data, any failure passed over
SetexErr ==
    /\ wpc = "setex_err"
    /\ LET ed == error_data(job_data, exc)
           key == error_key(job_data)
       IN /\ store' = IF redisUp THEN setex(store, key, RESULT_TTL, ed) ELSE store
          /\ hist' = [hist EXCEPT
                ![Last].writes = Append(@, [key |-> key, value |-> ed, ok |-> redisUp, at |-> now]),
                ![Last].ret = Some(FALSE),
                ![Last].done = TRUE]
    /\ wpc' = "blpop"
    /\ UNCHANGED <<redisVars, queue, prodVars, job_data, result, exc, signalled, timeVars, waitVars, snapVars, watchVars>>

\* the handler of line 115 ends the loop
Sleep_Break ==
    /\ wpc = "sleep"
    /\ wpc' = "aborted"
    /\ UNCHANGED <<redisVars, queue, store, prodVars, job_data, result, exc, hist, signalled, timeVars, waitVars, snapVars, watchVars>>

\* run, lines 115-117: log, time.sleep(5), next iteration
Sleep ==
    /\ wpc = "sleep"
    /\ wpc' = "blpop"
    /\ UNCHANGED <<redisVars, queue, store, prodVars, job_data, result, exc, hist, signalled, timeVars, waitVars, snapVars, watchVars>>

\* where a KeyboardInterrupt raised at position pc takes the worker:
\* inside the inner try (lines 84-91) the bare except passes over it and
\* process_job returns; inside the handler of line 115 it leaves run;
\* anywhere else in the loop body line 112 catches it
interrupt_target(pc) ==
    IF pc = "setex_err" THEN "blpop"
    ELSE IF pc = "sleep" THEN "aborted"
    ELSE "stopped"

\* a KeyboardInterrupt (SIGINT) is delivered to the worker process
Interrupt ==
    /\ wpc \notin {"stopped", "aborted"}
    /\ signalled' = TRUE
    /\ wpc' = interrupt_target(wpc)
    /\ hist' = IF wpc \in {"blpop", "sleep"} \/ hist = <<>> THEN hist
               ELSE IF wpc = "setex_err"
               THEN [hist EXCEPT ![Last].ret = Some(FALSE), ![Last].done = TRUE,
                                 ![Last].interrupted = TRUE]
               ELSE [hist EXCEPT ![Last].done = TRUE, ![Last].interrupted = TRUE]
    /\ UNCHANGED <<redisVars, queue, store, prodVars, job_data, result, exc, timeVars, waitVars, snapVars, watchVars>>

\* the worker comes back and puts the entry it held on the list again
Kill_Requeue ==
    /\ wpc \notin {"stopped", "aborted", "killed"}
    /\ wpc' = "killed"
    /\ queue' = IF wpc \in {"blpop", "sleep"} \/ hist = <<>> THEN queue
                ELSE <<hist[Last].entry>> \o queue
    /\ UNCHANGED <<redisVars, store, prodVars, job_data, result, exc, hist,
                   signalled, timeVars, waitVars, snapVars, watchVars>>

\* the worker process is terminated (SIGKILL, crash, power loss): wherever
\* it is in run or process_job, nothing of it runs any more
Kill ==
    /\ wpc \notin {"stopped", "aborted", "killed"}
    /\ wpc' = "killed"
    /\ UNCHANGED <<redisVars, queue, store, prodVars, job_data, result, exc, hist,
                   signalled, timeVars, waitVars, snapVars, watchVars>>

Worker ==
    \/ BlpopJob \/ BlpopError \/ Loads \/ Fields \/ MkdirOk \/ MkdirFails
    \/ RunReturns \/ RunRaises \/ Setex \/ Handler \/ SetexErr \/ Sleep

Next ==
    \/ \E p \in Producers : SubmitBuild(p)
    \/ \E p \in Producers : SubmitPush(p)
    \/ RawPush
    \/ RedisDown
    \/ RedisRestore
    \/ Worker
    \/ Interrupt

Spec == Init /\ [][Next]_vars

\* Below, the worker is a running process: its enabled step is eventually
\* taken (subprocess.run returns or raises).

\* no signal and no Redis outage
NextCalm ==
    \/ \E p \in Producers : SubmitBuild(p)
    \/ \E p \in Producers : SubmitPush(p)
    \/ RawPush
    \/ BlpopJob \/ Loads \/ Fields \/ MkdirOk \/ MkdirFails
    \/ RunReturns \/ RunRaises \/ Setex \/ Handler \/ SetexErr \/ Sleep

CalmSpec == Init /\ [][NextCalm]_vars /\ WF_vars(Worker)

\* no signal; Redis comes and goes; one producer
NextErr ==
    \/ SubmitBuild("p1")
    \/ SubmitPush("p1")
    \/ RawPush
    \/ RedisDown
    \/ RedisRestore
    \/ Worker

ErrSpec == Init /\ [][NextErr]_vars /\ WF_vars(Worker)

\* no signal and no outage; one producer; time passes and results expire
NextTtl ==
    \/ SubmitBuild("p1")
    \/ SubmitPush("p1")
    \/ RawPush
    \/ BlpopJob \/ Loads \/ Fields \/ MkdirOk \/ MkdirFails
    \/ RunReturns \/ RunRaises \/ Setex \/ Handler \/ SetexErr \/ Sleep
    \/ Tick

TtlSpec == Init /\ [][NextTtl]_vars

\* no signal and no outage; one producer; the worker can be terminated;
\* wait_for_result is called; a call that has begun goes on
NextWait ==
    \/ SubmitBuild("p1")
    \/ SubmitPush("p1")
    \/ BlpopJob \/ Loads \/ Fields \/ MkdirOk \/ MkdirFails
    \/ RunReturns \/ RunRaises \/ Setex \/ Handler \/ SetexErr
    \/ Kill
    \/ WaitStart
    \/ Waiter

WaitSpec == Init /\ [][NextWait]_vars /\ WF_vars(Waiter)

\* no signal and no outage; one producer; results expire; list_queue_status
\* is called
NextSnap ==
    \/ SubmitBuild("p1")
    \/ SubmitPush("p1")
    \/ BlpopJob \/ Loads \/ Fields \/ MkdirOk \/ MkdirFails
    \/ RunReturns \/ RunRaises \/ Setex \/ Handler \/ SetexErr
    \/ Tick
    \/ Snapshot

SnapSpec == Init /\ [][NextSnap]_vars

\* the state after n jobs were submitted and processed, one a second, the
\* odd ones with return code 0 and the even ones with return code 1
ExecOf(k) ==
    IF k % 2 = 1
    THEN [returncode |-> 0, stdout |-> "transcript", stderr |-> ""]
    ELSE [returncode |-> 1, stdout |-> "", stderr |-> "file not found"]

RECURSIVE StoreAfter(_)
StoreAfter(n) ==
    IF n = 0 THEN <<>>
    ELSE setex(elapse(StoreAfter(n - 1), 1), result_prefix \o uuid4(n),
               RESULT_TTL, result_data(uuid4(n), ExecOf(n)))

Processed(k) ==
    [NewRec(SubmittedEntry(uuid4(k))) EXCEPT
        !.parsed = TRUE, !.mkdir = "ok", !.execs = 1, !.ran = "returned",
        !.res = ExecOf(k),
        !.writes = <<[key |-> result_prefix \o uuid4(k),
                      value |-> result_data(uuid4(k), ExecOf(k)),
                      ok |-> TRUE, at |-> k]>>,
        !.ret = Some(ExecOf(k).returncode = 0),
        !.done = TRUE]

InitList ==
    \E n \in 0..MaxResults :
        /\ redisUp = TRUE
        /\ queue = <<>>
        /\ store = StoreAfter(n)
        /\ nextId = n + 1
        /\ ppc = [p \in Producers |-> "idle"]
        /\ pjob = [p \in Producers |-> NoEntry]
        /\ submitted = { uuid4(k) : k \in 1..n }
        /\ wpc = "blpop"
        /\ job_data = IF n = 0 THEN NoEntry ELSE SubmittedEntry(uuid4(n))
        /\ result = IF n = 0 THEN NoResult ELSE ExecOf(n)
        /\ exc = ""
        /\ signalled = FALSE
        /\ enqLog = [k \in 1..n |-> SubmittedEntry(uuid4(k))]
        /\ hist = [k \in 1..n |-> Processed(k)]
        /\ now = n
        /\ ticks = 0
        /\ wtpc = "idle"
        /\ wt = NoWait
        /\ spc = "idle"
        /\ snap = NoSnap
        /\ processing = {}
        /\ fthr = [t \in Threads |-> NoCall]
        /\ accepted = <<>>
        /\ wexecs = <<>>

\* list_queue_status called with up to MaxResults results in the store and
\* nothing else running
ListSpec == InitList /\ [][Snapshot]_vars

\* the directory watcher alone: its handler is called from the threads
NextWatch == \E t \in Threads : Watcher(t)

WatchSpec == Init /\ [][NextWatch]_vars

\* main, lines 122-125: redis.from_url opens no connection, so the worker
\* is constructed and run() entered whether or not Redis is reachable
InitStart ==
    /\ redisUp \in BOOLEAN
    /\ queue = <<>>
    /\ store = <<>>
    /\ nextId = 1
    /\ ppc = [p \in Producers |-> "idle"]
    /\ pjob = [p \in Producers |-> NoEntry]
    /\ submitted = {}
    /\ wpc = "blpop"
    /\ job_data = NoEntry
    /\ result = NoResult
    /\ exc = ""
    /\ signalled = FALSE
    /\ enqLog = <<>>
    /\ hist = <<>>
    /\ now = 0
    /\ ticks = 0
    /\ wtpc = "idle"
    /\ wt = NoWait
    /\ spc = "idle"
    /\ snap = NoSnap
    /\ processing = {}
    /\ fthr = [t \in Threads |-> NoCall]
    /\ accepted = <<>>
    /\ wexecs = <<>>

\* Redis stays as it was when the worker started; no signal; one producer
NextStart ==
    \/ SubmitBuild("p1")
    \/ SubmitPush("p1")
    \/ RawPush
    \/ Worker

StartSpec == InitStart /\ [][NextStart]_vars

(* ------------------------------ properties ----------------------------- *)
JobIds == { uuid4(n) : n \in 1..MaxJobs }
Stored == { store[k].value : k \in DOMAIN store }
\* every value the worker passed to SETEX
Written ==
    UNION { { hist[i].writes[j].value : j \in 1..Len(hist[i].writes) } :
            i \in 1..Len(hist) }

\* C1: the worker dequeues entries in exactly the order in which they were
\* appended: the dequeued entries are a prefix of the appended ones, so an
\* entry appended before another is dequeued before it.
C1_Fifo ==
    /\ Len(hist) <= Len(enqLog)
    /\ \A i \in 1..Len(hist) : hist[i].entry = enqLog[i]

\* two producers interleaved: the later uuid was appended and dequeued first
C1_Witness ==
    /\ Len(hist) >= 2
    /\ hist[1].entry = SubmittedEntry(uuid4(2))
    /\ hist[2].entry = SubmittedEntry(uuid4(1))

\* get_result(id) returns a result whose job_id field is id
Delivered(id) ==
    /\ get_result(id) # Null
    /\ get_result(id)[1].job_id = id

\* C2: with no signal sent to the worker and Redis reachable throughout,
\* every job_id returned by submit_job eventually has a result retrievable
\* by get_result, and the result carries that job_id.
C2_ResultAppears ==
    \A id \in JobIds : (id \in submitted) ~> Delivered(id)

\* a submitted job got its result although the entry before it was no JSON
C2_Witness ==
    /\ Len(hist) >= 2
    /\ hist[1].entry.shape = "invalid"
    /\ hist[2].entry.job_id \in submitted
    /\ Delivered(hist[2].entry.job_id)

Statuses == {"completed", "failed", "error"}

\* C3: every result the worker passes to SETEX, and every result in the
\* store, has a status field that is one of completed, failed, error.
C3_StatusValid ==
    \A v \in Written \cup Stored :
        "status" \in DOMAIN v /\ v.status \in Statuses

\* results of the normal path and of the exception path are both stored
C3_Witness ==
    /\ \E v \in Stored : v.status = "failed"
    /\ \E v \in Stored : v.status = "error"

\* C4: a result has a non-null error field exactly when its status is not
\* completed.
C4_ErrorIffNotCompleted ==
    \A v \in Written \cup Stored :
        "error" \in DOMAIN v /\ ((v.status = "completed") <=> (v.error = Null))

\* a completed result is stored for a run that wrote to stderr
C4_Witness ==
    \E i \in 1..Len(hist) :
        /\ hist[i].ran = "returned"
        /\ hist[i].res.returncode = 0 /\ hist[i].res.stderr # ""
        /\ hist[i].writes # <<>> /\ hist[i].writes[1].ok
        /\ hist[i].writes[1].value.error = Null

\* C5: the result built after subprocess.run returned has status completed
\* exactly when the return code is 0 and failed exactly when it is not, with
\* error the captured stderr in the failed case; and no completed or failed
\* result is written for a run that did not return with such a code.
C5_ByReturnCode ==
    \A i \in 1..Len(hist) :
        /\ (hist[i].ran = "returned" /\ hist[i].writes # <<>>) =>
              LET v == hist[i].writes[1].value
                  r == hist[i].res
              IN /\ (v.status = "completed") <=> (r.returncode = 0)
                 /\ (v.status = "failed") <=> (r.returncode # 0)
                 /\ (r.returncode # 0) => (v.error = Some(r.stderr))
        /\ \A j \in 1..Len(hist[i].writes) :
              LET v == hist[i].writes[j].value
              IN /\ (v.status = "completed") =>
                      (hist[i].ran = "returned" /\ hist[i].res.returncode = 0)
                 /\ (v.status = "failed") =>
                      (hist[i].ran = "returned" /\ hist[i].res.returncode # 0)

\* a run killed by a signal, with nothing on stderr, is stored as failed
C5_Witness ==
    \E i \in 1..Len(hist) :
        /\ hist[i].ran = "returned"
        /\ hist[i].res.returncode < 0 /\ hist[i].res.stderr = ""
        /\ hist[i].writes # <<>> /\ hist[i].writes[1].ok
        /\ hist[i].writes[1].value.status = "failed"

\* not parseable, or an object without "file_path" or without "job_id"
Malformed(e) ==
    \/ e.shape = "invalid"
    \/ e.shape = "object" /\ ~(e.has_path /\ e.has_id)

\* C6: every malformed entry the worker is through with (no signal having
\* cut it short) had a result with status error passed to SETEX.
C6_MalformedGetsError ==
    \A i \in 1..Len(hist) :
        (hist[i].done /\ ~hist[i].interrupted /\ Malformed(hist[i].entry)) =>
            \E j \in 1..Len(hist[i].writes) :
                hist[i].writes[j].value.status = "error"

\* C7: when mkdir failed or subprocess.run raised, the worker made exactly
\* one SETEX, of a result with status error and the entry's job_id under
\* that job_id's key (retrievable when the SETEX went through), called
\* subprocess.run at most the one time that raised, and the entry is not
\* on the list again.
C7_ExceptionGivesError ==
    \A i \in 1..Len(hist) :
        (/\ hist[i].done /\ ~hist[i].interrupted
         /\ (hist[i].mkdir = "failed" \/ hist[i].ran = "raised")) =>
            LET e == hist[i].entry
                w == hist[i].writes
            IN /\ Len(w) = 1
               /\ w[1].key = result_prefix \o e.job_id
               /\ w[1].value.status = "error"
               /\ w[1].value.job_id = e.job_id
               /\ w[1].ok => get_result(e.job_id) = Some(w[1].value)
               /\ hist[i].execs = (IF hist[i].ran = "raised" THEN 1 ELSE 0)
               /\ \A q \in 1..Len(queue) : queue[q] # e

\* one job whose mkdir failed and one whose subprocess.run raised, both
\* with their error result stored
C7_Witness ==
    /\ \E i \in 1..Len(hist) :
          /\ hist[i].done /\ hist[i].mkdir = "failed"
          /\ hist[i].writes # <<>> /\ hist[i].writes[1].ok
    /\ \E i \in 1..Len(hist) :
          /\ hist[i].done /\ hist[i].ran = "raised"
          /\ hist[i].writes # <<>> /\ hist[i].writes[1].ok

\* C8: with no signal sent, the worker never leaves its loop, and every
\* entry appended to the list is eventually dequeued, whatever became of
\* the entries before it, unless Redis is unreachable.
C8_LoopSurvives ==
    /\ [](wpc \notin {"stopped", "aborted"})
    /\ \A n \in 1..MaxJobs :
          (Len(enqLog) >= n) ~> (Len(hist) >= n \/ ~redisUp)

\* an exception left process_job and the next entry was still processed
C8_Witness ==
    /\ signalled = FALSE
    /\ Len(hist) >= 2
    /\ hist[1].escaped
    /\ hist[2].done

C10_SignalStopsLoop == signalled => wpc = "stopped"

\* C11: a BLPOP that fails because Redis is unreachable takes the worker to
\* the sleep of line 117 and removes nothing from the list; from the sleep
\* the worker goes nowhere but back to BLPOP, and it does get back there,
\* again and again while Redis stays unreachable.
C11_BackoffRetry ==
    /\ [][(wpc = "blpop" /\ ~redisUp /\ wpc' # "blpop") =>
            (wpc' = "sleep" /\ queue' = queue /\ hist' = hist)]_vars
    /\ [][(wpc = "sleep" /\ wpc' # "sleep") => wpc' = "blpop"]_vars
    /\ (wpc = "sleep") ~> (wpc = "blpop")
    /\ (wpc = "blpop" /\ [](~redisUp)) ~> (wpc = "sleep")

\* the worker is back at BLPOP after a failed attempt, Redis is still
\* unreachable and an entry is still waiting on the list
C11_Witness ==
    /\ wpc = "blpop"
    /\ exc = "Connection refused"
    /\ ~redisUp
    /\ hist = <<>>
    /\ queue # <<>>

\* C12: a worker started while Redis is unreachable has terminated
\* abnormally once its first BLPOP is over.
C12_StartupFatal == (~redisUp /\ wpc # "blpop") => wpc = "aborted"

\* C13: for every dequeued entry subprocess.run is called at most once and
\* at most one SETEX goes through, and no step of the worker puts anything
\* on the list: a worker step leaves the list as it is or takes its head.
C13_AtMostOnce ==
    /\ [](\A i \in 1..Len(hist) :
            /\ hist[i].execs <= 1
            /\ Cardinality({ j \in 1..Len(hist[i].writes) : hist[i].writes[j].ok }) <= 1
            /\ Len(hist[i].writes) <= 2)
    /\ [][(wpc' # wpc \/ hist' # hist) =>
            (queue' = queue \/ queue' = Tail(queue))]_vars

\* a job whose first SETEX failed: run once, second SETEX went through
C13_Witness ==
    \E i \in 1..Len(hist) :
        /\ hist[i].done
        /\ hist[i].execs = 1
        /\ Len(hist[i].writes) = 2
        /\ ~hist[i].writes[1].ok /\ hist[i].writes[2].ok

\* C17: a submit_job that has built its descriptor can always make its
\* push, whatever the length of the list and wherever the worker is
\* (running, stopped or gone); the push, Redis being reachable, appends
\* exactly that descriptor at the tail and returns its job_id, and changes
\* nothing of the worker.
C17_SubmitNeverBlocks ==
    /\ [](\A p \in Producers : ppc[p] = "rpush" => ENABLED SubmitPush(p))
    /\ [][\A p \in Producers :
            (ppc[p] = "rpush" /\ ppc'[p] = "idle" /\ redisUp) =>
                /\ queue' = Append(queue, pjob[p])
                /\ submitted' = submitted \cup {pjob[p].job_id}
                /\ UNCHANGED workVars]_vars

\* two submits went through after the worker had stopped; nothing was
\* dequeued
C17_Witness ==
    /\ wpc = "stopped"
    /\ hist = <<>>
    /\ Len(queue) = 2
    /\ Cardinality(submitted) = 2

\* C20: the depth list_queue_status reports is the number of entries
\* appended minus the number dequeued, the list holds exactly the appended
\* entries not yet dequeued, in their order, and a dequeue with no push
\* in the same step lowers the depth by exactly one.
C20_DepthConsistent ==
    /\ [](/\ queue_length = Len(enqLog) - Len(hist)
          /\ queue = SubSeq(enqLog, Len(hist) + 1, Len(enqLog)))
    /\ [][Len(hist') = Len(hist) + 1 => llen(queue') = queue_length - 1]_vars

\* two producers pushed in the opposite order of their uuid4 calls, the
\* worker took the first entry: depth 1, the other entry still queued
C20_Witness ==
    /\ Len(hist) = 1
    /\ queue_length = 1
    /\ hist[1].entry = SubmittedEntry(uuid4(2))
    /\ queue[1] = SubmittedEntry(uuid4(1))

(* --------------------------- expiry of results -------------------------- *)
\* the SETEX calls of the i-th dequeued entry that Redis carried out
OkWrites(i) ==
    { hist[i].writes[j] :
        j \in { x \in 1..Len(hist[i].writes) : hist[i].writes[x].ok } }

\* the dequeued entries for which key was written
KeyWriters(key) == { i \in 1..Len(hist) : \E w \in OkWrites(i) : w.key = key }

\* the most recent write of key
LastWrite(key) ==
    LET i == CHOOSE x \in KeyWriters(key) : \A y \in KeyWriters(key) : y <= x
    IN CHOOSE w \in OkWrites(i) : w.key = key

\* the first write of key
FirstWrite(key) ==
    LET i == CHOOSE x \in KeyWriters(key) : \A y \in KeyWriters(key) : x <= y
    IN CHOOSE w \in OkWrites(i) : w.key = key

ResultIds == JobIds \cup {"unknown"}

\* C18: a result written with the worker's TTL of 3600 seconds is returned
\* by get_result at every time less than 3600 seconds after the write and at
\* no time 3600 seconds or more after it; after expiry get_result returns
\* None, as it does for a job_id that never had a result.
C18_Expiry ==
    /\ RESULT_TTL = 3600
    /\ get_result(uuid4(0)) = Null
    /\ \A id \in ResultIds :
          LET key == result_prefix \o id
          IN IF KeyWriters(key) = {}
             THEN get_result(id) = Null
             ELSE LET w == LastWrite(key)
                  IN /\ now - w.at < RESULT_TTL => get_result(id) = Some(w.value)
                     /\ now - w.at >= RESULT_TTL =>
                            get_result(id) = get_result(uuid4(0))

\* 3600 seconds after the start the result written at second 0 is gone and
\* the one written at second 1 is still returned
C18_Witness ==
    /\ now = RESULT_TTL
    /\ KeyWriters(result_prefix \o uuid4(1)) # {}
    /\ KeyWriters(result_prefix \o uuid4(2)) # {}
    /\ LastWrite(result_prefix \o uuid4(1)).at = 0
    /\ LastWrite(result_prefix \o uuid4(2)).at = 1
    /\ get_result(uuid4(1)) = Null
    /\ get_result(uuid4(2)) = Some(LastWrite(result_prefix \o uuid4(2)).value)

\* C19: after two writes of one key get_result returns the value of the
\* second write or nothing, never the first value, and returns it exactly
\* until 3600 seconds after the second write.
C19_LastWriteWins ==
    \A id \in ResultIds :
        LET key == result_prefix \o id
        IN Cardinality(KeyWriters(key)) >= 2 =>
              LET w1 == FirstWrite(key)
                  w2 == LastWrite(key)
              IN /\ get_result(id) \in {Null, Some(w2.value)}
                 /\ w1.value # w2.value => get_result(id) # Some(w1.value)
                 /\ get_result(id) # Null <=> now - w2.at < RESULT_TTL

\* two entries without job_id wrote whisper:result:unknown one second apart
\* with different errors; 3600 seconds after the first write the second
\* value is still returned
C19_Witness ==
    LET key == result_prefix \o "unknown"
    IN /\ Cardinality(KeyWriters(key)) = 2
       /\ FirstWrite(key).value # LastWrite(key).value
       /\ FirstWrite(key).at = 0
       /\ LastWrite(key).at = 1
       /\ now = RESULT_TTL
       /\ get_result("unknown") = Some(LastWrite(key).value)

(* ------------------------- waiting for a result ------------------------- *)
Waiting == wtpc \in {"while", "get", "sleep"}

\* the worker was terminated holding an entry for which no SETEX was made
KilledBeforeWrite ==
    /\ wpc = "killed"
    /\ hist # <<>>
    /\ ~hist[Last].done
    /\ OkWrites(Last) = {}

\* C14: when the worker is terminated after it dequeued an entry and before
\* it wrote that job's result, then from there on get_result finds nothing
\* for that job_id, the entry is not on the queue, and every wait_for_result
\* for that job_id ends and returns None.
C14_KilledJobLost ==
    /\ [](KilledBeforeWrite =>
            LET id == hist[Last].entry.job_id
            IN /\ get_result(id) = Null
               /\ \A k \in 1..Len(queue) : queue[k] # hist[Last].entry
               /\ (wtpc = "returned" /\ wt.job_id = id) => wt.ret = Null)
    /\ [][KilledBeforeWrite => (hist' = hist /\ wpc' = wpc)]_vars
    /\ (KilledBeforeWrite /\ Waiting /\ wt.job_id = hist[Last].entry.job_id)
          ~> (wtpc = "returned" /\ wt.ret = Null)

\* job-1 was dequeued and its command had returned when the worker was
\* terminated; a wait for job-1 begun after that has polled twice and
\* returned None
C14_Witness ==
    /\ KilledBeforeWrite
    /\ hist[Last].entry = SubmittedEntry(uuid4(1))
    /\ hist[Last].ran = "returned"
    /\ wtpc = "returned"
    /\ wt.job_id = uuid4(1)
    /\ wt.lookups = 2
    /\ wt.ret = Null

\* C15: with Redis reachable, every call of wait_for_result returns; it
\* makes at most timeout / 2 (rounded up) lookups, begins a lookup only
\* while less than timeout seconds have passed since its start, and returns
\* None or a result the worker wrote for that job_id.
C15_WaitTerminates ==
    /\ Waiting ~> (wtpc = "returned")
    /\ [](wt.lookups <= (wt.timeout + POLL_INTERVAL - 1) \div POLL_INTERVAL)
    /\ [][wt'.lookups > wt.lookups => now - wt.start_time < wt.timeout]_vars
    /\ [](wtpc = "returned" =>
            \/ wt.ret = Null
            \/ wt.ret # Null /\ wt.ret[1] \in Written /\ wt.ret[1].job_id = wt.job_id)

\* no worker ran at all and nothing was submitted: the wait with timeout 3
\* made its two lookups, 4 seconds have passed, and it returned None
C15_Witness ==
    /\ wpc = "killed"
    /\ hist = <<>>
    /\ enqLog = <<>>
    /\ wtpc = "returned"
    /\ wt.timeout = 3
    /\ wt.lookups = 2
    /\ now - wt.start_time = 4
    /\ wt.ret = Null

\* the results that tell of a job that finished badly
BadResults == { r \in Written : r.status \in {"failed", "error"} }

Dequeued(id) ==
    \E i \in 1..Len(hist) : hist[i].entry.has_id /\ hist[i].entry.job_id = id

\* C21: get_result finds a result for a job_id, and wait_for_result returns
\* one, only after the worker has dequeued the entry with that job_id.
C21_NoResultBeforeDequeue ==
    /\ \A id \in JobIds : get_result(id) # Null => Dequeued(id)
    /\ (wtpc = "returned" /\ wt.ret # Null) => Dequeued(wt.job_id)
    /\ \A k \in 1..Len(queue) :
          queue[k].has_id => get_result(queue[k].job_id) = Null

\* the wait for job-1 returned its result while job-2 is still on the list
\* and has none
C21_Witness ==
    /\ wtpc = "returned"
    /\ wt.job_id = uuid4(1)
    /\ wt.ret # Null
    /\ Dequeued(uuid4(1))
    /\ queue = <<SubmittedEntry(uuid4(2))>>
    /\ get_result(uuid4(2)) = Null

\* the dequeued entries whose command has been started and has neither
\* returned nor raised
Executing ==
    { i \in 1..Len(hist) :
        \/ i = Last /\ wpc = "run_cmd"
        \/ hist[i].execs > 0 /\ hist[i].ran = "no" }

\* C22: at most one dequeued entry has its command running; when the worker
\* dequeues the next entry it is through with the one before: that one's
\* command, if it was started, has returned or raised and a SETEX for it was
\* made (or was cut short by a signal inside the inner try).
C22_OneAtATime ==
    /\ [](Cardinality(Executing) <= 1)
    /\ [](\A i \in 1..Len(hist) : i < Last => hist[i].done)
    /\ [][Len(hist') > Len(hist) =>
            \/ hist = <<>>
            \/ /\ wpc = "blpop"
               /\ hist[Last].done
               /\ hist[Last].execs > 0 =>
                     /\ hist[Last].ran \in {"returned", "raised"}
                     /\ hist[Last].writes # <<>> \/ hist[Last].interrupted]_vars

\* the first job's command returned and its result was written; the second
\* job's command is running
C22_Witness ==
    /\ Len(hist) = 2
    /\ hist[1].done
    /\ hist[1].ran = "returned"
    /\ hist[1].writes # <<>>
    /\ wpc = "run_cmd"
    /\ Executing = {2}

(* --------------------------- error results ------------------------------ *)
\* C25: an entry whose command returned, with whatever return code, has no
\* result with status error written to the store.
C25_ErrorOnlyWithoutExec ==
    \A i \in 1..Len(hist) :
        hist[i].ran = "returned" =>
            \A w \in OkWrites(i) : w.value.status # "error"

\* the writes with status error made for the i-th dequeued entry
ErrorWrites(i) ==
    { hist[i].writes[j] :
        j \in { x \in 1..Len(hist[i].writes) :
                  hist[i].writes[x].value.status = "error" } }

\* C26: an error result made for an entry that holds a job_id carries that
\* job_id and goes to that job_id's key; it carries "unknown" and goes to
\* the key of "unknown" exactly when the entry holds no job_id.
C26_ErrorJobId ==
    \A i \in 1..Len(hist) : \A w \in ErrorWrites(i) :
        LET e == hist[i].entry
        IN /\ e.has_id => /\ w.value.job_id = e.job_id
                          /\ w.key = result_prefix \o e.job_id
           /\ w.value.job_id = "unknown" <=> ~e.has_id
           /\ w.key = result_prefix \o "unknown" <=> ~e.has_id

\* job-1 came without file_path and its error result is stored under its
\* own key; the second entry came without job_id and its error result is
\* stored under the key of unknown
C26_Witness ==
    /\ Len(hist) = 2
    /\ hist[1].entry = Entry("object", FALSE, TRUE, uuid4(1))
    /\ ~hist[2].entry.has_id
    /\ get_result(uuid4(1)) # Null
    /\ get_result(uuid4(1))[1].status = "error"
    /\ get_result(uuid4(1))[1].job_id = uuid4(1)
    /\ get_result("unknown") # Null
    /\ get_result("unknown")[1].job_id = "unknown"

\* C27: a wait_for_result called while a result for its job_id is stored
\* returns that result, for every timeout from 0 on.
C27_StoredResultReturned ==
    (wtpc = "returned" /\ wt.had # Null) => wt.ret = wt.had

\* C28: process_job raises nothing to run for any decoded value: it returns
\* True or False, and True exactly when a result with status completed was
\* stored.
C28_ProcessJobTotal ==
    \A i \in 1..Len(hist) :
        (hist[i].parsed /\ hist[i].done) =>
            /\ ~hist[i].escaped
            /\ hist[i].ret \in {Some(TRUE), Some(FALSE)}
            /\ hist[i].ret = Some(TRUE) <=>
                  \E w \in OkWrites(i) : w.value.status = "completed"

(* --------------------------- status snapshot ---------------------------- *)
\* C30: list_queue_status raises nothing, whatever happens to the keys it
\* listed before it reads them.
C30_SnapshotCompletes == spc # "raised"

\* the keys list_queue_status printed a line for
Listed ==
    { snap.result_keys[j] : j \in 1..Len(first_keys(snap.result_keys)) }

\* C24: list_queue_status prints at most 5 results, and they are the most
\* recently written of the unexpired ones: no result it leaves out was
\* written after one it lists.
C24_RecentListed ==
    spc = "done" =>
        /\ Cardinality(Listed) <= LIMIT
        /\ Len(snap.printed) <= LIMIT + 2
        /\ \A k1 \in Listed : \A k2 \in DOMAIN store \ Listed :
              store[k1].ttl > store[k2].ttl

(* ------------------------------- watcher -------------------------------- *)
\* C23: every media file the watcher accepts becomes an entry on
\* whisper:jobs, the list submit_job pushes to, and the watcher runs no
\* transcription itself: once its calls are over there is an entry, on the
\* list or dequeued, for every accepted file.
C23_WatcherEnqueues ==
    /\ wexecs = <<>>
    /\ (\A t \in Threads : fthr[t].pc = "idle") =>
          Len(enqLog) >= Len(accepted)

\* the threads whose transcription of path p is running
InFlight(p) == { t \in Threads : fthr[t].pc = "running" /\ fthr[t].path = p }

\* C29: whatever the interleaving of process_file calls for one path, at
\* most one transcription of that path is running, and a running
\* transcription's path is in self.processing.
C29_OneInFlight ==
    \A t \in Threads :
        fthr[t].pc = "running" =>
            /\ Cardinality(InFlight(fthr[t].path)) <= 1
            /\ fthr[t].path \in processing

====
